---- MODULE Spec2Model ----
(***************************************************************************)
(* Model of chirper.py: a cron-style bot that discovers spreadsheets in a  *)
(* Drive folder, extracts Twitter handles from one column, and sends each  *)
(* handle a first and then a second tweet, keeping its bookkeeping in a    *)
(* ZODB database (db.files, db.twitter_handles).                           *)
(*                                                                         *)
(* Python strings are TLA+ strings; TLC evaluates Len, SubSeq and \o on    *)
(* them.  The ZODB connection's view of the two BTrees is `files` and      *)
(* `twitter_handles`; `disk` is the last committed state.  `with           *)
(* transaction.manager:` commits on normal exit (disk' = view) and aborts  *)
(* when an exception leaves the block (view' = disk).                      *)
(***************************************************************************)
EXTENDS Integers, Sequences, FiniteSets, TLC

(***************************************************************************)
(* Bounds of the model.                                                    *)
(***************************************************************************)
\* number of invocations of main() that are explored
MaxRuns == 3
\* number of cells read from the designated column of one spreadsheet
MaxCells == 1
\* largest configured value of MAX_TWEET_COUNT that is explored
MaxCap == 2

(***************************************************************************)
(* Python string primitives.                                               *)
(***************************************************************************)
CharAt(s, i) == SubSeq(s, i, i)

IndexIn(c, chars) == CHOOSE i \in 1..Len(chars) : CharAt(chars, i) = c

IsIn(c, chars) == \E i \in 1..Len(chars) : CharAt(chars, i) = c

\* ord(c), for the characters that occur in the model's strings
Ord(c) ==
    IF IsIn(c, "0123456789") THEN 47 + IndexIn(c, "0123456789")
    ELSE IF IsIn(c, "ABCDEFGHIJKLMNOPQRSTUVWXYZ") THEN 64 + IndexIn(c, "ABCDEFGHIJKLMNOPQRSTUVWXYZ")
    ELSE IF IsIn(c, "abcdefghijklmnopqrstuvwxyz") THEN 96 + IndexIn(c, "abcdefghijklmnopqrstuvwxyz")
    ELSE IF IsIn(c, " !") THEN 31 + IndexIn(c, " !")
    ELSE IF c = "#" THEN 35
    ELSE IF IsIn(c, ",-./") THEN 43 + IndexIn(c, ",-./")
    ELSE IF c = ":" THEN 58
    ELSE IF c = "@" THEN 64
    ELSE 95

\* str.isdigit() of a single character
IsDigit(c) == c \in {"0", "1", "2", "3", "4", "5", "6", "7", "8", "9"}

\* characters removed by str.strip()
IsSpace(c) == c = " "

\* s.startswith(p)
StartsWith(s, p) == Len(s) >= Len(p) /\ SubSeq(s, 1, Len(p)) = p

\* s[n:]
DropPrefix(s, n) == SubSeq(s, n + 1, Len(s))

\* sub in s
Contains(s, sub) ==
    \E i \in 1..(Len(s) - Len(sub) + 1) : SubSeq(s, i, i + Len(sub) - 1) = sub

RECURSIVE LStrip(_)
LStrip(s) == IF s # "" /\ IsSpace(CharAt(s, 1)) THEN LStrip(DropPrefix(s, 1)) ELSE s

RECURSIVE RStrip(_)
RStrip(s) ==
    IF s # "" /\ IsSpace(CharAt(s, Len(s))) THEN RStrip(SubSeq(s, 1, Len(s) - 1)) ELSE s

\* s.strip()
Strip(s) == RStrip(LStrip(s))

\* s.split(","): always at least one piece
RECURSIVE Split(_)
Split(s) ==
    IF \E i \in 1..Len(s) : CharAt(s, i) = ","
    THEN LET i == CHOOSE k \in 1..Len(s) :
                     /\ CharAt(s, k) = ","
                     /\ \A j \in 1..(k - 1) : CharAt(s, j) # ","
         IN <<SubSeq(s, 1, i - 1)>> \o Split(DropPrefix(s, i))
    ELSE <<s>>

\* a < b on Python strings (code point order), the key order of an OOBTree
RECURSIVE StrLess(_, _)
StrLess(a, b) ==
    IF b = "" THEN FALSE
    ELSE IF a = "" THEN TRUE
    ELSE IF CharAt(a, 1) = CharAt(b, 1) THEN StrLess(DropPrefix(a, 1), DropPrefix(b, 1))
    ELSE Ord(CharAt(a, 1)) < Ord(CharAt(b, 1))

\* the keys of a BTree in iteration order
RECURSIVE SortedKeys(_)
SortedKeys(S) ==
    IF S = {} THEN <<>>
    ELSE LET m == CHOOSE x \in S : \A y \in S \ {x} : StrLess(x, y)
         IN <<m>> \o SortedKeys(S \ {m})

Range(q) == {q[i] : i \in 1..Len(q)}

(***************************************************************************)
(* extract_twitter_handles: the handles of one column.                     *)
(***************************************************************************)
twitter_url_prefix == <<"https://twitter.com/", "http://twitter.com/">>

\* CleanFragment that keeps the fragment marker
KeepFragment(handle) == handle

\* lines 164-165: clean old style fragment URLs
CleanFragment(handle) == IF StartsWith(handle, "#!/") THEN DropPrefix(handle, 3) ELSE handle

\* HandlesOfUrl that also takes a piece without a known prefix as a handle
HandlesOfUrlOrBare(url, p) ==
    IF p # 1 THEN <<>>
    ELSE IF StartsWith(url, twitter_url_prefix[1])
    THEN <<CleanFragment(DropPrefix(url, Len(twitter_url_prefix[1])))>>
    ELSE IF StartsWith(url, twitter_url_prefix[2])
    THEN <<CleanFragment(DropPrefix(url, Len(twitter_url_prefix[2])))>>
    ELSE <<url>>

\* lines 159-167 for one url: one handle per prefix the url starts with
RECURSIVE HandlesOfUrl(_, _)
HandlesOfUrl(url, p) ==
    IF p > Len(twitter_url_prefix) THEN <<>>
    ELSE (IF StartsWith(url, twitter_url_prefix[p])
          THEN <<CleanFragment(DropPrefix(url, Len(twitter_url_prefix[p])))>>
          ELSE <<>>) \o HandlesOfUrl(url, p + 1)

RECURSIVE HandlesOfUrls(_)
HandlesOfUrls(urls) ==
    IF urls = <<>> THEN <<>>
    ELSE HandlesOfUrl(Strip(Head(urls)), 1) \o HandlesOfUrls(Tail(urls))

\* lines 147-167: the handles contributed by one cell
HandlesOfCell(cell_content) ==
    IF cell_content = "" THEN <<>>
    ELSE IF ~Contains(cell_content, "://") THEN <<Strip(cell_content)>>
    ELSE HandlesOfUrls(Split(cell_content))

\* lines 141-169: the loop over the column
RECURSIVE extract_twitter_handles(_)
extract_twitter_handles(twitter_urls) ==
    IF twitter_urls = <<>> THEN <<>>
    ELSE HandlesOfCell(Head(twitter_urls)) \o extract_twitter_handles(Tail(twitter_urls))

(***************************************************************************)
(* The outside world: the Drive folder listing, the spreadsheets' column   *)
(* and the answers of Twitter.                                             *)
(***************************************************************************)
FileIds == {"F1", "F2"}

\* items that watch_files may return; F1 is listed under two titles and
\* creation dates, F2 once as a spreadsheet and once as a misc file
DriveItems ==
    { [id |-> "F1", title |-> "leads1", createdDate |-> "2015-03-01"],
      [id |-> "F1", title |-> "leads 2015", createdDate |-> "2015-03-02"],
      [id |-> "F2", title |-> "leads2", createdDate |-> "2015-03-02"],
      [id |-> "F2", title |-> "notes.csv", createdDate |-> "2015-03-02"] }

\* one listing: every file of the folder once
Listings ==
    {<<>>} \cup {<<a>> : a \in DriveItems}
           \cup UNION {{<<a, b>> : b \in {c \in DriveItems : c.id # a.id}} : a \in DriveItems}

CellTexts ==
    { "", "bar", "https://twitter.com/foo, bar",
      "http://twitter.com/#!/bar, https://twitter.com/foo" }

RECURSIVE SeqsUpTo(_, _)
SeqsUpTo(S, n) ==
    IF n = 0 THEN {<<>>}
    ELSE SeqsUpTo(S, n - 1) \cup
         {Append(q, e) : q \in {r \in SeqsUpTo(S, n - 1) : Len(r) = n - 1}, e \in S}

\* what worksheet.col_values may return
Columns == SeqsUpTo(CellTexts, MaxCells)

\* every handle some column can yield
AllHandles == UNION {Range(HandlesOfCell(c)) : c \in CellTexts}

\* twitter.update_status: accepted, rejected with code 187, rejected otherwise
Outcomes == {"success", "duplicate", "error"}

\* iso8601.parse_date: the datetime as a day number
parse_date(createdDate) == IF createdDate = "2015-03-01" THEN 1 ELSE 2

\* None, and the falsy result of dict.get on a missing key
None == 0

(***************************************************************************)
(* The decisions of the code.                                              *)
(***************************************************************************)
\* IsSpreadsheetTitle without the test of the last character
IsSpreadsheetTitleAlways(title) == TRUE

\* lines 205-210: only titles ending in a digit are spreadsheets
IsSpreadsheetTitle(title) == IsDigit(CharAt(title, Len(title)))

\* IsUnseenFile without the membership test
IsUnseenFileAlways(file_id, fs) == TRUE

\* line 214
IsUnseenFile(file_id, fs) == file_id \notin DOMAIN fs

\* line 216: PersistentMapping(file); the listing has no "processed" key,
\* so file_data.get("processed") is falsy until line 251 sets it
NewFileRecord(file) ==
    [id |-> file.id, title |-> file.title, createdDate |-> file.createdDate,
     processed |-> FALSE]

\* IsProcessed ignoring the flag
IsProcessedNever(file_data) == FALSE

\* line 240
IsProcessed(file_data) == file_data.processed

\* IsUnseenHandle without the membership test
IsUnseenHandleAlways(handle, hs) == TRUE

\* line 247
IsUnseenHandle(handle, hs) == handle \notin DOMAIN hs

\* NewHandleRecord with the file's title as its provenance
NewHandleRecordByTitle(file_data, file_id, utcnow) ==
    [added |-> parse_date(file_data.createdDate), imported |-> utcnow,
     sheet |-> file_data.title, first_tweet_at |-> None, second_tweet_at |-> None]

\* line 249; the two tweet keys are absent until tweet_everything sets them
NewHandleRecord(file_data, file_id, utcnow) ==
    [added |-> parse_date(file_data.createdDate), imported |-> utcnow,
     sheet |-> file_id, first_tweet_at |-> None, second_tweet_at |-> None]

\* DiskAfterInsert with the transaction inside the loop
DiskAfterInsertCommitted(view, d) == view

\* lines 244-250: the with block encloses the loop over the handles, so an
\* insertion alone commits nothing
DiskAfterInsert(view, d) == d

\* NeedsFirstTweet ignoring the timestamp
NeedsFirstTweetAlways(handle_data) == TRUE

\* line 288
NeedsFirstTweet(handle_data) == handle_data.first_tweet_at = None

\* line 298
NeedsSecondTweet(handle_data) == handle_data.second_tweet_at = None

\* SendTweetRaises with every error swallowed
SendTweetNeverRaises(outcome) == FALSE

\* lines 258-272: send_tweet returns after a success and after code 187,
\* every other TweepError becomes a RuntimeError
SendTweetRaises(outcome) == outcome \notin {"success", "duplicate"}

\* time.sleep(a + random.randint(0, b)): the shortest and the longest sleep
SleepRange(a, b) == [lo |-> a, hi |-> a + b]

\* send_tweet leaves without sleeping
NoSleep == [lo |-> 0, hi |-> 0]

\* SleepOfSendTweet without any sleep
SleepNever(outcome) == NoSleep

\* the sleep of send_tweet after update_status: line 275 after a success,
\* line 268 after code 187, none before the raise of line 272
SleepOfSendTweet(outcome) ==
    IF outcome = "success" THEN SleepRange(30, 90)
    ELSE IF outcome = "duplicate" THEN SleepRange(10, 10)
    ELSE NoSleep

\* CapReached that stops after the first handle
CapReachedAlways(count, max) == TRUE

\* line 307
CapReached(count, max) == count >= max

Put(f, k, v) == [j \in DOMAIN f \cup {k} |-> IF j = k THEN v ELSE f[j]]

(***************************************************************************)
(* State.                                                                  *)
(***************************************************************************)
VARIABLES
    pc,               \* position of the process; "idle" between two runs
    files,            \* db.files as the connection sees it
    twitter_handles,  \* db.twitter_handles as the connection sees it
    disk,             \* the committed contents of chirper.data.fs
    MAX_TWEET_COUNT,  \* the configured cap of sends per run
    now,              \* datetime.utcnow(), one tick per run
    listing,          \* scan_for_new_spreadsheets: files still to visit
    discovered,       \* scan_for_new_spreadsheets' flag
    file_iter,        \* extract_..._from_spreadsheets: file ids still to visit
    twitter_urls,     \* the column read for the file being extracted
    handles,          \* handles of that file still to insert
    handle_iter,      \* tweet_everything: handles still to visit
    tweet_count,      \* tweet_everything's counter
    \* history, for stating the properties
    scanned,          \* during discovery: the listing it was given
    result,           \* how the last run ended, "running" during a run
    read_files,       \* the files whose spreadsheet the run has read
    start_handles,    \* twitter_handles when tweet_everything started
    calls,            \* the update_status calls of the run, in order
    accepted          \* per handle and stage, the tweets Twitter accepted

\* the variables of the functions of one run
locals ==
    <<listing, discovered, file_iter, twitter_urls, handles, handle_iter, tweet_count,
      scanned>>

db == <<files, twitter_handles, disk>>

vars ==
    <<pc, db, MAX_TWEET_COUNT, now, locals, result, read_files, start_handles, calls,
      accepted>>

Empty == [j \in {} |-> None]

\* get_database on a new chirper.data.fs: two empty BTrees.  The source sets
\* MAX_TWEET_COUNT to 10 (line 67); the cap is a setting of the deployment,
\* and the model explores the small settings 0..MaxCap.

Init ==
    /\ pc = "idle"
    /\ files = Empty
    /\ twitter_handles = Empty
    /\ disk = [files |-> Empty, twitter_handles |-> Empty]
    /\ MAX_TWEET_COUNT \in 0..MaxCap
    /\ now = 0
    /\ listing = <<>>
    /\ discovered = FALSE
    /\ file_iter = <<>>
    /\ twitter_urls = <<>>
    /\ handles = <<>>
    /\ handle_iter = <<>>
    /\ tweet_count = 0
    /\ scanned = <<>>
    /\ result = "none"
    /\ read_files = {}
    /\ start_handles = Empty
    /\ calls = <<>>
    /\ accepted = [k \in AllHandles \X {1, 2} |-> 0]

(***************************************************************************)
(* main(): open the database and list the Drive folder (lines 312-327,     *)
(* 204).  A new process sees the committed state.                          *)
(***************************************************************************)
StartRun ==
    /\ pc = "idle"
    /\ now < MaxRuns
    /\ now' = now + 1
    /\ \E l \in Listings : listing' = l /\ scanned' = l
    /\ files' = disk.files
    /\ twitter_handles' = disk.twitter_handles
    /\ pc' = "scan"
    /\ result' = "running"
    /\ read_files' = {}
    /\ start_handles' = disk.twitter_handles
    /\ calls' = <<>>
    /\ UNCHANGED <<disk, MAX_TWEET_COUNT, discovered, file_iter, twitter_urls, handles,
                   handle_iter, tweet_count, accepted>>

(***************************************************************************)
(* scan_for_new_spreadsheets (lines 204-220): one transaction per listed   *)
(* spreadsheet.                                                            *)
(***************************************************************************)
\* lines 205-217: db.files after the iteration for one listed file
ScanStep(file, fs) ==
    IF IsSpreadsheetTitle(file.title) /\ IsUnseenFile(file.id, fs)
    THEN Put(fs, file.id, NewFileRecord(file))
    ELSE fs

\* one iteration of the loop
ScanFile ==
    /\ pc = "scan"
    /\ listing # <<>>
    /\ files' = ScanStep(Head(listing), files)
    /\ disk' = [files |-> files', twitter_handles |-> twitter_handles]
    /\ discovered' = (discovered \/ files' # files)
    /\ listing' = Tail(listing)
    /\ UNCHANGED <<pc, twitter_handles, MAX_TWEET_COUNT, now, file_iter, twitter_urls,
                   handles, handle_iter, tweet_count, scanned, result, read_files,
                   start_handles, calls, accepted>>

\* the loop is over; main() goes on to the extraction, which iterates
\* db.files.items() in key order (line 233)
ScanDone ==
    /\ pc = "scan"
    /\ listing = <<>>
    /\ pc' = "extract"
    /\ file_iter' = SortedKeys(DOMAIN files)
    /\ discovered' = FALSE
    /\ scanned' = <<>>
    /\ UNCHANGED <<db, MAX_TWEET_COUNT, now, listing, twitter_urls, handles,
                   handle_iter, tweet_count, result, read_files, start_handles, calls,
                   accepted>>

(***************************************************************************)
(* extract_twitter_handles_from_spreadsheets (lines 233-251).              *)
(***************************************************************************)
\* line 240 is false: the file was extracted before
ExtractSkip ==
    /\ pc = "extract"
    /\ file_iter # <<>>
    /\ IsProcessed(files[Head(file_iter)])
    /\ file_iter' = Tail(file_iter)
    /\ UNCHANGED <<pc, db, MAX_TWEET_COUNT, now, listing, discovered, twitter_urls,
                   handles, handle_iter, tweet_count, scanned, result, read_files,
                   start_handles, calls, accepted>>

\* line 241: read the column and extract its handles, then open the
\* transaction of line 244
ExtractRead ==
    /\ pc = "extract"
    /\ file_iter # <<>>
    /\ ~IsProcessed(files[Head(file_iter)])
    /\ \E column \in Columns :
          /\ twitter_urls' = column
          /\ handles' = extract_twitter_handles(column)
    /\ read_files' = read_files \cup {Head(file_iter)}
    /\ pc' = "extract_txn"
    /\ UNCHANGED <<db, MAX_TWEET_COUNT, now, listing, discovered, file_iter,
                   handle_iter, tweet_count, scanned, result, start_handles, calls,
                   accepted>>

\* lines 245-249, one iteration
ExtractInsert ==
    /\ pc = "extract_txn"
    /\ handles # <<>>
    /\ LET handle == Head(handles)
           file_id == Head(file_iter)
       IN twitter_handles' =
             IF IsUnseenHandle(handle, twitter_handles)
             THEN Put(twitter_handles, handle,
                      NewHandleRecord(files[file_id], file_id, now))
             ELSE twitter_handles
    /\ disk' = DiskAfterInsert([files |-> files, twitter_handles |-> twitter_handles'],
                               disk)
    /\ handles' = Tail(handles)
    /\ UNCHANGED <<pc, files, MAX_TWEET_COUNT, now, listing, discovered, file_iter,
                   twitter_urls, handle_iter, tweet_count, scanned, result, read_files,
                   start_handles, calls, accepted>>

\* line 251 and the commit at the end of the with block
ExtractCommit ==
    /\ pc = "extract_txn"
    /\ handles = <<>>
    /\ files' = [files EXCEPT ![Head(file_iter)].processed = TRUE]
    /\ disk' = [files |-> files', twitter_handles |-> twitter_handles]
    /\ file_iter' = Tail(file_iter)
    /\ twitter_urls' = <<>>
    /\ pc' = "extract"
    /\ UNCHANGED <<twitter_handles, MAX_TWEET_COUNT, now, listing, discovered, handles,
                   handle_iter, tweet_count, scanned, result, read_files,
                   start_handles, calls, accepted>>

\* all files visited; main() goes on to tweet_everything, which iterates
\* db.twitter_handles.items() in key order (lines 281-283)
ExtractDone ==
    /\ pc = "extract"
    /\ file_iter = <<>>
    /\ pc' = "tweet"
    /\ handle_iter' = SortedKeys(DOMAIN twitter_handles)
    /\ tweet_count' = 0
    /\ start_handles' = twitter_handles
    /\ UNCHANGED <<db, MAX_TWEET_COUNT, now, listing, discovered, file_iter,
                   twitter_urls, handles, scanned, result, read_files, calls, accepted>>

(***************************************************************************)
(* The process ends: its local variables are gone, and what the connection *)
(* had not committed is lost.                                              *)
(***************************************************************************)
EndRun(how) ==
    /\ pc' = "idle"
    /\ result' = how
    /\ listing' = <<>>
    /\ discovered' = FALSE
    /\ file_iter' = <<>>
    /\ twitter_urls' = <<>>
    /\ handles' = <<>>
    /\ handle_iter' = <<>>
    /\ tweet_count' = 0
    /\ scanned' = <<>>

(***************************************************************************)
(* tweet_everything (lines 283-309) and send_tweet (lines 258-275).        *)
(***************************************************************************)
\* Branch with the two tests in the other order
BranchSecondBeforeFirst(handle_data) ==
    IF NeedsSecondTweet(handle_data) THEN 2
    ELSE IF NeedsFirstTweet(handle_data) THEN 1
    ELSE 0

\* the branch lines 288 and 298 choose for a handle: 1, 2, or 0 for none
Branch(handle_data) ==
    IF NeedsFirstTweet(handle_data) THEN 1
    ELSE IF NeedsSecondTweet(handle_data) THEN 2
    ELSE 0

\* AfterHandle that visits the same handle again
AfterHandleAgain(count) ==
    IF CapReached(count, MAX_TWEET_COUNT)
    THEN EndRun("completed")
    ELSE /\ pc' = "tweet"
         /\ tweet_count' = count
         /\ UNCHANGED <<listing, discovered, file_iter, twitter_urls, handles,
                        handle_iter, scanned, result>>

\* lines 307-309, after the transaction of one handle
AfterHandle(count) ==
    IF CapReached(count, MAX_TWEET_COUNT)
    THEN EndRun("completed")
    ELSE /\ pc' = "tweet"
         /\ handle_iter' = Tail(handle_iter)
         /\ tweet_count' = count
         /\ UNCHANGED <<listing, discovered, file_iter, twitter_urls, handles, scanned,
                        result>>

\* lines 285-293 or 298-303: open the transaction and call send_tweet, whose
\* update_status (line 259) Twitter answers in one of three ways and which
\* sleeps before it returns; a
\* RuntimeError (line 272) leaves the with block, which aborts the
\* transaction, and ends the run
SendTweet ==
    /\ pc = "tweet"
    /\ handle_iter # <<>>
    /\ LET handle_id == Head(handle_iter)
           stage == Branch(twitter_handles[handle_id])
       IN /\ stage # 0
          /\ \E outcome \in Outcomes :
                /\ calls' = Append(calls, [handle |-> handle_id, stage |-> stage,
                                           outcome |-> outcome,
                                           pause |-> SleepOfSendTweet(outcome)])
                /\ accepted' = IF outcome = "success"
                               THEN [accepted EXCEPT ![<<handle_id, stage>>] = @ + 1]
                               ELSE accepted
                /\ IF SendTweetRaises(outcome)
                   THEN /\ EndRun("aborted")
                        /\ files' = disk.files
                        /\ twitter_handles' = disk.twitter_handles
                   ELSE /\ pc' = IF stage = 1 THEN "sent_first" ELSE "sent_second"
                        /\ UNCHANGED <<files, twitter_handles, locals, result>>
    /\ UNCHANGED <<disk, MAX_TWEET_COUNT, now, read_files, start_handles>>

\* send_tweet has returned (after the sleep of line 268 or 275): lines
\* 294-295 or 304-305, the commit at the end of the with block, and the
\* check of the cap
RecordTweet ==
    /\ pc \in {"sent_first", "sent_second"}
    /\ LET handle_id == Head(handle_iter)
       IN twitter_handles' =
             IF pc = "sent_first"
             THEN [twitter_handles EXCEPT ![handle_id].first_tweet_at = now]
             ELSE [twitter_handles EXCEPT ![handle_id].second_tweet_at = now]
    /\ disk' = [files |-> files, twitter_handles |-> twitter_handles']
    /\ AfterHandle(tweet_count + 1)
    /\ UNCHANGED <<files, MAX_TWEET_COUNT, now, read_files, start_handles, calls,
                   accepted>>

\* neither branch applies: an empty transaction, then the check of the cap
SkipHandle ==
    /\ pc = "tweet"
    /\ handle_iter # <<>>
    /\ Branch(twitter_handles[Head(handle_iter)]) = 0
    /\ AfterHandle(tweet_count)
    /\ UNCHANGED <<db, MAX_TWEET_COUNT, now, read_files, start_handles, calls,
                   accepted>>

\* the loop ran out of handles: main() returns
TweetDone ==
    /\ pc = "tweet"
    /\ handle_iter = <<>>
    /\ EndRun("completed")
    /\ UNCHANGED <<db, MAX_TWEET_COUNT, now, read_files, start_handles, calls,
                   accepted>>

(***************************************************************************)
(* The run is interrupted where it stands: the process is killed, a        *)
(* network call of Drive or of the spreadsheet raises, or a commit fails.  *)
(* Nothing of the open transaction reaches the disk.                       *)
(***************************************************************************)
Crash ==
    /\ pc # "idle"
    /\ EndRun("crashed")
    /\ files' = disk.files
    /\ twitter_handles' = disk.twitter_handles
    /\ UNCHANGED <<disk, MAX_TWEET_COUNT, now, read_files, start_handles, calls,
                   accepted>>

Run ==
    \/ StartRun
    \/ ScanFile
    \/ ScanDone
    \/ ExtractSkip
    \/ ExtractRead
    \/ ExtractInsert
    \/ ExtractCommit
    \/ ExtractDone
    \/ SendTweet
    \/ RecordTweet
    \/ SkipHandle
    \/ TweetDone

Next == Run \/ Crash

\* every run, interrupted ones included
Spec == Init /\ [][Next]_vars

\* runs that complete or that abort on an error of Twitter
SpecNoCrash == Init /\ [][Run]_vars

TypeOK ==
    /\ pc \in {"idle", "scan", "extract", "extract_txn", "tweet", "sent_first", "sent_second"}
    /\ DOMAIN files \subseteq FileIds
    /\ DOMAIN twitter_handles \subseteq AllHandles
    /\ DOMAIN disk.files \subseteq FileIds
    /\ DOMAIN disk.twitter_handles \subseteq AllHandles
    /\ now \in 0..MaxRuns
    /\ MAX_TWEET_COUNT \in 0..MaxCap
    /\ result \in {"none", "running", "completed", "aborted", "crashed"}
    /\ read_files \subseteq FileIds
    /\ \A i \in 1..Len(calls) : calls[i].outcome \in Outcomes

(***************************************************************************)
(* Vocabulary of the properties.                                           *)
(***************************************************************************)
\* the committed registries
FileRegistry == disk.files
HandleRegistry == disk.twitter_handles

\* the stage of a record: 0 NEW, 1 STAGE1_SENT, 2 STAGE2_SENT
StageOf(rec) ==
    IF rec.second_tweet_at # None THEN 2
    ELSE IF rec.first_tweet_at # None THEN 1
    ELSE 0

\* the timestamp field of stage 1 or 2
StampOf(rec, stage) == IF stage = 1 THEN rec.first_tweet_at ELSE rec.second_tweet_at

\* the i-th call of the run has come back and its transaction is over
Settled(i) == i < Len(calls) \/ pc \notin {"sent_first", "sent_second"}

SuccessCount(k) ==
    Cardinality({i \in 1..Len(calls) :
                    /\ <<calls[i].handle, calls[i].stage>> = k
                    /\ calls[i].outcome = "success"})

(***************************************************************************)
(* C1.  When Twitter answers a send with the duplicate status (code 187),  *)
(* the first and second tweet timestamps of that handle are after the      *)
(* attempt what they were before it, and the run goes on with the next     *)
(* handle.                                                                 *)
(***************************************************************************)
C1_DuplicateLeavesStage ==
    \A i \in 1..Len(calls) :
        (calls[i].outcome = "duplicate" /\ Settled(i)) =>
            /\ HandleRegistry[calls[i].handle] = start_handles[calls[i].handle]
            /\ result # "aborted"

(***************************************************************************)
(* C2.  Over runs that complete or abort on an error of Twitter, Twitter   *)
(* accepts for every handle at most one first tweet and at most one second *)
(* tweet.                                                                  *)
(***************************************************************************)
C2_EachStageAcceptedOnce == \A k \in DOMAIN accepted : accepted[k] <= 1

\* a handle has got both its tweets, the second in a later run
C2_Witness ==
    \E h \in DOMAIN HandleRegistry :
        /\ accepted[<<h, 1>>] = 1
        /\ accepted[<<h, 2>>] = 1
        /\ result = "completed"

(***************************************************************************)
(* C3.  A send and the recording of its timestamp are one unit: a tweet    *)
(* that Twitter accepted is never sent again, even when the run was        *)
(* interrupted before the timestamp was committed.  Stated on the calls of *)
(* a run: none of them is for a handle and stage Twitter had accepted      *)
(* before.                                                                 *)
(***************************************************************************)
C3_NoResendAfterInterruption ==
    \A i \in 1..Len(calls) :
        LET k == <<calls[i].handle, calls[i].stage>>
        IN accepted[k] - SuccessCount(k) = 0

(***************************************************************************)
(* C4.  In every committed state a handle with a second tweet timestamp    *)
(* has a first one; a new record starts without timestamps; no record      *)
(* disappears; a stage goes up by at most one per step and never down; a   *)
(* timestamp once set keeps its value.                                     *)
(***************************************************************************)
SecondImpliesFirst ==
    \A h \in DOMAIN HandleRegistry :
        HandleRegistry[h].second_tweet_at # None => HandleRegistry[h].first_tweet_at # None

StageStep ==
    /\ \A h \in DOMAIN HandleRegistry :
          /\ h \in DOMAIN HandleRegistry'
          /\ StageOf(HandleRegistry'[h]) \in {StageOf(HandleRegistry[h]),
                                             StageOf(HandleRegistry[h]) + 1}
          /\ \A stage \in {1, 2} :
                StampOf(HandleRegistry[h], stage) # None =>
                    StampOf(HandleRegistry'[h], stage) = StampOf(HandleRegistry[h], stage)
    /\ \A h \in DOMAIN HandleRegistry' \ DOMAIN HandleRegistry :
          StageOf(HandleRegistry'[h]) = 0

C4_StageProgression == []SecondImpliesFirst /\ [][StageStep]_vars

\* a handle is at STAGE2_SENT after a run that was cut short
C4_Witness ==
    /\ result \in {"aborted", "crashed"}
    /\ \E h \in DOMAIN HandleRegistry : StageOf(HandleRegistry[h]) = 2

(***************************************************************************)
(* C5.  With a cap of N >= 0 and M > N eligible handles, a run in which    *)
(* every send succeeds sends exactly N tweets, and the handles it did not  *)
(* send to keep their record.                                              *)
(***************************************************************************)
EligibleAtStart == {h \in DOMAIN start_handles : StageOf(start_handles[h]) < 2}

CalledHandles == {calls[i].handle : i \in 1..Len(calls)}

AllSendsSucceeded == \A i \in 1..Len(calls) : calls[i].outcome = "success"

C5_ExactlyCapSends ==
    ( /\ result = "completed"
      /\ AllSendsSucceeded
      /\ Cardinality(EligibleAtStart) > MAX_TWEET_COUNT ) =>
        /\ Len(calls) = MAX_TWEET_COUNT
        /\ \A h \in EligibleAtStart \ CalledHandles :
              HandleRegistry[h] = start_handles[h]

(***************************************************************************)
(* C6.  The insertions of one file and its processed flag are committed    *)
(* together or not at all: when the extraction of a file is interrupted,   *)
(* the committed state has the file unprocessed and holds no handle of     *)
(* that file, and the connection is back at the committed state.           *)
(***************************************************************************)
InterruptedExtraction == pc = "extract_txn" /\ result' = "crashed"

C6_ExtractionAllOrNothing ==
    [][InterruptedExtraction =>
          LET file_id == Head(file_iter)
          IN /\ file_id \in DOMAIN FileRegistry'
             /\ ~FileRegistry'[file_id].processed
             /\ \A h \in DOMAIN HandleRegistry' : HandleRegistry'[h].sheet # file_id
             /\ HandleRegistry' = HandleRegistry]_vars

\* a run read a file's spreadsheet and was interrupted before the commit
C6_Witness ==
    /\ result = "crashed"
    /\ \E f \in read_files : ~FileRegistry[f].processed

(***************************************************************************)
(* C7.  When Twitter answers a send with another failure, the run aborts:  *)
(* the failing handle's record is unchanged, no further tweet is sent in   *)
(* the run, and the timestamps committed before, in this run and in        *)
(* earlier ones, are kept.                                                 *)
(***************************************************************************)
C7_FatalErrorAborts ==
    \A i \in 1..Len(calls) :
        calls[i].outcome = "error" =>
            /\ i = Len(calls)
            /\ pc = "idle"
            /\ result = "aborted"
            /\ HandleRegistry[calls[i].handle] = start_handles[calls[i].handle]
            /\ \A j \in 1..(i - 1) :
                  StampOf(HandleRegistry[calls[j].handle], calls[j].stage) = now
            /\ \A h \in DOMAIN start_handles : \A stage \in {1, 2} :
                  StampOf(start_handles[h], stage) # None =>
                      StampOf(HandleRegistry[h], stage) = StampOf(start_handles[h], stage)

\* a run aborted on its second send or later
C7_Witness ==
    /\ result = "aborted"
    /\ Len(calls) >= 2
    /\ calls[Len(calls)].outcome = "error"
    /\ \E h \in DOMAIN start_handles : start_handles[h].first_tweet_at # None

(***************************************************************************)
(* C8.  Discovery only adds: no record of the File Registry is changed or  *)
(* removed by it, whatever the listing holds; and discovering the same     *)
(* listing once more leaves the registry as the first discovery left it.   *)
(***************************************************************************)
\* scan_for_new_spreadsheets over a whole listing
RECURSIVE Discover(_, _)
Discover(l, fs) == IF l = <<>> THEN fs ELSE Discover(Tail(l), ScanStep(Head(l), fs))

DiscoveryStep ==
    pc = "scan" =>
        /\ \A id \in DOMAIN FileRegistry :
              id \in DOMAIN FileRegistry' /\ FileRegistry'[id] = FileRegistry[id]
        /\ pc' = "extract" => Discover(scanned, FileRegistry) = FileRegistry

C8_DiscoveryFirstWriteWins == [][DiscoveryStep]_vars

\* discovery has met a known file under another title and has gone through
\* the whole listing
C8_Witness ==
    /\ pc = "scan"
    /\ listing = <<>>
    /\ \E i \in 1..Len(scanned) :
          /\ IsSpreadsheetTitle(scanned[i].title)
          /\ scanned[i].id \in DOMAIN FileRegistry
          /\ FileRegistry[scanned[i].id].title # scanned[i].title
          /\ FileRegistry[scanned[i].id].processed

(***************************************************************************)
(* C9.  The extraction pass does nothing for a file that is marked         *)
(* processed: its spreadsheet is not read, and while the pass stands at    *)
(* that file the Handle Registry does not change.                          *)
(***************************************************************************)
ProcessedFileStep ==
    \A f \in DOMAIN FileRegistry :
        FileRegistry[f].processed =>
            /\ f \in read_files' => f \in read_files
            /\ (pc \in {"extract", "extract_txn"} /\ file_iter # <<>> /\ Head(file_iter) = f) =>
                  /\ HandleRegistry' = HandleRegistry
                  /\ twitter_handles' = twitter_handles

C9_ProcessedFileNotExtracted == [][ProcessedFileStep]_vars

\* the pass has gone over a processed file without reading it
C9_Witness ==
    /\ pc = "tweet"
    /\ \E f \in DOMAIN FileRegistry : FileRegistry[f].processed /\ f \notin read_files
    /\ read_files # {}

(***************************************************************************)
(* C10.  Extracting F1 with the cell "https://twitter.com/foo, bar".       *)
(***************************************************************************)
FooBarCell == "https://twitter.com/foo, bar"

\* the transaction of F1 commits, the column read holding the cell
CommitOfFooBarCell ==
    /\ pc = "extract_txn"
    /\ pc' = "extract"
    /\ Head(file_iter) = "F1"
    /\ \E i \in 1..Len(twitter_urls) : twitter_urls[i] = FooBarCell

IsNewRecordOfF1(hs, h) ==
    /\ h \in DOMAIN hs
    /\ hs[h].sheet = "F1"
    /\ StageOf(hs[h]) = 0

\* C10 as claimed: the cell yields foo and bar, and both get a new record
\* with sheet F1 when neither was registered
C10_FooAndBarRegistered ==
    [][CommitOfFooBarCell =>
          /\ HandlesOfCell(FooBarCell) = <<"foo", "bar">>
          /\ ("foo" \notin DOMAIN HandleRegistry /\ "bar" \notin DOMAIN HandleRegistry) =>
                /\ IsNewRecordOfF1(HandleRegistry', "foo")
                /\ IsNewRecordOfF1(HandleRegistry', "bar")]_vars

\* C10 amended: the cell yields foo alone; foo gets a new record with sheet
\* F1 when it was not registered, and bar gets no record through this cell
C10_OnlyFooRegistered ==
    [][CommitOfFooBarCell =>
          /\ HandlesOfCell(FooBarCell) = <<"foo">>
          /\ "foo" \notin DOMAIN HandleRegistry => IsNewRecordOfF1(HandleRegistry', "foo")
          /\ (twitter_urls = <<FooBarCell>> /\ "bar" \notin DOMAIN HandleRegistry) =>
                "bar" \notin DOMAIN HandleRegistry']_vars

\* the column of F1 was that one cell, foo is inserted and bar is not, and
\* the commit is next
C10_Witness ==
    /\ pc = "extract_txn"
    /\ handles = <<>>
    /\ Head(file_iter) = "F1"
    /\ twitter_urls = <<FooBarCell>>
    /\ "foo" \notin DOMAIN HandleRegistry
    /\ IsNewRecordOfF1(twitter_handles, "foo")
    /\ "bar" \notin DOMAIN twitter_handles

(***************************************************************************)
(* extract_twitter_handles on its own: the function is applied to a column *)
(* that worksheet.col_values returned (line 138), and its result is what   *)
(* line 241 binds to `handles`.                                            *)
(***************************************************************************)
\* cell texts: blank ones, bare handles, profile URLs of both prefixes, old
\* style fragment URLs, lists of URLs and URLs of other sites
ExtractorCells ==
    { "", " ", "  ", "bar", " bar ", "http://twitter.com/#!/baz",
      "https://twitter.com/foo, bar", " https://twitter.com/foo ,http://twitter.com/bar",
      "https://twitter.com/foo, ftp://example.org/qux", "https://twitter.com/" }

ExtractorColumns == SeqsUpTo(ExtractorCells, MaxCells + 1)

\* line 138: the column is fetched
ExtractorInit ==
    /\ pc = "column"
    /\ twitter_urls \in ExtractorColumns
    /\ handles = <<>>
    /\ files = Empty
    /\ twitter_handles = Empty
    /\ disk = [files |-> Empty, twitter_handles |-> Empty]
    /\ MAX_TWEET_COUNT = MaxCap
    /\ now = 0
    /\ listing = <<>>
    /\ discovered = FALSE
    /\ file_iter = <<>>
    /\ handle_iter = <<>>
    /\ tweet_count = 0
    /\ scanned = <<>>
    /\ result = "none"
    /\ read_files = {}
    /\ start_handles = Empty
    /\ calls = <<>>
    /\ accepted = [k \in AllHandles \X {1, 2} |-> 0]

\* lines 141-169: the loop over the column and the return
ExtractorReturn ==
    /\ pc = "column"
    /\ handles' = extract_twitter_handles(twitter_urls)
    /\ pc' = "returned"
    /\ UNCHANGED <<db, MAX_TWEET_COUNT, now, listing, discovered, file_iter, twitter_urls,
                   handle_iter, tweet_count, scanned, result, read_files, start_handles,
                   calls, accepted>>

ExtractorSpec == ExtractorInit /\ [][ExtractorReturn]_vars

(***************************************************************************)
(* C11.  A cell text without "://" yields exactly one handle, the trimmed  *)
(* text, except that a blank cell (empty or made of whitespace) yields     *)
(* nothing; no handle is the empty string.  Stated on columns all of whose *)
(* cells are without "://": the result is, cell after cell, what the cells *)
(* yield.                                                                  *)
(***************************************************************************)
IsBlank(cell) == \A i \in 1..Len(cell) : CharAt(cell, i) = " "

BareHandleOf(cell) == IF IsBlank(cell) THEN <<>> ELSE <<Strip(cell)>>

RECURSIVE BareHandlesOf(_)
BareHandlesOf(column) ==
    IF column = <<>> THEN <<>>
    ELSE BareHandleOf(Head(column)) \o BareHandlesOf(Tail(column))

IsBareColumn(column) == \A i \in 1..Len(column) : ~Contains(column[i], "://")

C11_BareCellYieldsTrimmedText ==
    (pc = "returned" /\ IsBareColumn(twitter_urls)) =>
        /\ handles = BareHandlesOf(twitter_urls)
        /\ \A i \in 1..Len(handles) : handles[i] # ""

(***************************************************************************)
(* C12.  A cell text with "://" is split on commas and each piece trimmed; *)
(* every piece that starts with "https://twitter.com/" or with             *)
(* "http://twitter.com/" yields, in order, one handle: the piece without   *)
(* that prefix and without a leading "#!/"; the other pieces yield         *)
(* nothing.  The cell "http://twitter.com/#!/baz" yields baz alone.        *)
(***************************************************************************)
ProfileUrlPrefixes == {"https://twitter.com/", "http://twitter.com/"}

IsProfileUrl(piece) == \E p \in ProfileUrlPrefixes : StartsWith(piece, p)

HandleOfProfileUrl(piece) ==
    LET p == CHOOSE q \in ProfileUrlPrefixes : StartsWith(piece, q)
        rest == SubSeq(piece, Len(p) + 1, Len(piece))
    IN IF StartsWith(rest, "#!/") THEN SubSeq(rest, 4, Len(rest)) ELSE rest

TrimmedPieces(cell) == [i \in 1..Len(Split(cell)) |-> Strip(Split(cell)[i])]

UrlHandlesOfCell(cell) ==
    LET kept == SelectSeq(TrimmedPieces(cell), IsProfileUrl)
    IN [i \in 1..Len(kept) |-> HandleOfProfileUrl(kept[i])]

RECURSIVE UrlHandlesOf(_)
UrlHandlesOf(column) ==
    IF column = <<>> THEN <<>>
    ELSE UrlHandlesOfCell(Head(column)) \o UrlHandlesOf(Tail(column))

IsUrlColumn(column) == \A i \in 1..Len(column) : Contains(column[i], "://")

C12_UrlCellYieldsProfileHandles ==
    /\ (pc = "returned" /\ IsUrlColumn(twitter_urls)) =>
          handles = UrlHandlesOf(twitter_urls)
    /\ (pc = "returned" /\ twitter_urls = <<"http://twitter.com/#!/baz">>) =>
          handles = <<"baz">>

\* a fragment URL, then a list whose second piece is of another site
C12_Witness ==
    /\ pc = "returned"
    /\ twitter_urls = <<"http://twitter.com/#!/baz",
                        "https://twitter.com/foo, ftp://example.org/qux">>
    /\ handles = <<"baz", "foo">>

(***************************************************************************)
(* C13.  A record of the Handle Registry is created once: no step removes  *)
(* it or changes its added, imported or sheet; the extraction pass leaves  *)
(* every field of a registered handle as it is, in the committed state and *)
(* in the connection; tweet_everything changes nothing but the two tweet   *)
(* timestamps: it adds and removes no handle and leaves the File Registry  *)
(* alone.                                                                  *)
(***************************************************************************)
InExtraction == pc \in {"extract", "extract_txn"}

InStageRunner == pc \in {"tweet", "sent_first", "sent_second"}

Provenance(rec) == <<rec.added, rec.imported, rec.sheet>>

HandleRecordStep ==
    /\ \A h \in DOMAIN HandleRegistry :
          /\ h \in DOMAIN HandleRegistry'
          /\ Provenance(HandleRegistry'[h]) = Provenance(HandleRegistry[h])
          /\ InExtraction =>
                /\ HandleRegistry'[h] = HandleRegistry[h]
                /\ h \in DOMAIN twitter_handles'
                /\ twitter_handles'[h] = HandleRegistry[h]
    /\ InStageRunner =>
          /\ DOMAIN HandleRegistry' = DOMAIN HandleRegistry
          /\ DOMAIN twitter_handles' = DOMAIN twitter_handles
          /\ \A h \in DOMAIN twitter_handles :
                Provenance(twitter_handles'[h]) = Provenance(twitter_handles[h])
          /\ FileRegistry' = FileRegistry
          /\ files' = files

C13_HandleRecordCreatedOnce == [][HandleRecordStep]_vars

\* F2 is extracted in a later run than F1; its column holds bar, which F1
\* had registered and which has got its first tweet; the insertions are
\* done and bar's record is what it was
C13_Witness ==
    /\ pc = "extract_txn"
    /\ handles = <<>>
    /\ Head(file_iter) = "F2"
    /\ twitter_urls = <<"bar">>
    /\ "bar" \in DOMAIN HandleRegistry
    /\ HandleRegistry["bar"].sheet = "F1"
    /\ HandleRegistry["bar"].first_tweet_at # None
    /\ HandleRegistry["bar"].imported < now
    /\ twitter_handles["bar"] = HandleRegistry["bar"]

(***************************************************************************)
(* C14.  The processed flag of a file goes from false to true once: a new  *)
(* FileRecord is unprocessed; the flag is set only by the commit that ends *)
(* the extraction of that file, with every handle of its column then in    *)
(* the Handle Registry; no step removes the record or resets the flag; and *)
(* the extraction pass opens no transaction for a processed file.          *)
(***************************************************************************)
CommitOfExtraction(f) ==
    /\ pc = "extract_txn"
    /\ handles = <<>>
    /\ Head(file_iter) = f
    /\ pc' = "extract"

ProcessedFlagStep ==
    /\ \A f \in DOMAIN FileRegistry :
          /\ f \in DOMAIN FileRegistry'
          /\ FileRegistry[f].processed =>
                /\ FileRegistry'[f].processed
                /\ ~(pc' = "extract_txn" /\ Head(file_iter') = f)
          /\ (~FileRegistry[f].processed /\ FileRegistry'[f].processed) =>
                /\ CommitOfExtraction(f)
                /\ Range(extract_twitter_handles(twitter_urls)) \subseteq
                      DOMAIN HandleRegistry'
    /\ \A f \in DOMAIN FileRegistry' \ DOMAIN FileRegistry :
          ~FileRegistry'[f].processed

C14_ProcessedSetOnce == [][ProcessedFlagStep]_vars

\* F1 was extracted in an earlier run and is passed over in this one, in
\* which F2 has been extracted and has registered a handle
C14_Witness ==
    /\ pc = "extract"
    /\ file_iter = <<>>
    /\ DOMAIN FileRegistry = {"F1", "F2"}
    /\ FileRegistry["F1"].processed
    /\ FileRegistry["F2"].processed
    /\ read_files = {"F2"}
    /\ \E h \in DOMAIN HandleRegistry : HandleRegistry[h].sheet = "F2"

(***************************************************************************)
(* C15.  One iteration of discovery, for a listed file: when its title     *)
(* ends in a digit and its id is not in the File Registry, the registry    *)
(* gains one record, the listed file with processed = false; otherwise the *)
(* registry is unchanged.  No record of the registry has a title that does *)
(* not end in a digit.                                                     *)
(***************************************************************************)
EndsInDigit(title) ==
    /\ title # ""
    /\ \E d \in 0..9 : SubSeq(title, Len(title), Len(title)) = ToString(d)

DiscoveryOfOneFile == pc = "scan" /\ listing # <<>> /\ pc' = "scan"

DiscoveryInsertStep ==
    /\ DiscoveryOfOneFile =>
          LET file == Head(listing)
          IN IF EndsInDigit(file.title) /\ file.id \notin DOMAIN FileRegistry
             THEN /\ DOMAIN FileRegistry' = DOMAIN FileRegistry \cup {file.id}
                  /\ FileRegistry'[file.id] =
                        [id |-> file.id, title |-> file.title,
                         createdDate |-> file.createdDate, processed |-> FALSE]
                  /\ \A f \in DOMAIN FileRegistry : FileRegistry'[f] = FileRegistry[f]
             ELSE FileRegistry' = FileRegistry
    /\ \A f \in DOMAIN FileRegistry' : EndsInDigit(FileRegistry'[f].title)

C15_DiscoveryInsertsSpreadsheets == [][DiscoveryInsertStep]_vars

\* the first discovery has gone through a listing of F1 under a title that
\* ends in a digit and of F2 under one that does not: F1 alone is registered
C15_Witness ==
    /\ pc = "scan"
    /\ listing = <<>>
    /\ now = 1
    /\ \E i, j \in 1..Len(scanned) :
          /\ scanned[i].id = "F1"
          /\ scanned[j].id = "F2"
          /\ scanned[j].title = "notes.csv"
    /\ DOMAIN FileRegistry = {"F1"}
    /\ ~FileRegistry["F1"].processed

(***************************************************************************)
(* C16.  The calls of one run of tweet_everything are for different        *)
(* handles.  A handle that had no tweet when tweet_everything started and  *)
(* whose tweet Twitter accepts is sent the first tweet, and its second     *)
(* timestamp stays unset in that run; when the run is not interrupted its  *)
(* first timestamp is the time of the run.  A second tweet goes only to a  *)
(* handle whose first timestamp is of an earlier run.                      *)
(***************************************************************************)
C16_OneTweetPerHandlePerRun ==
    /\ \A i, j \in 1..Len(calls) : calls[i].handle = calls[j].handle => i = j
    /\ \A i \in 1..Len(calls) :
          LET h == calls[i].handle
          IN /\ (StageOf(start_handles[h]) = 0 /\ calls[i].outcome = "success") =>
                   /\ calls[i].stage = 1
                   /\ twitter_handles[h].second_tweet_at = None
                   /\ HandleRegistry[h].second_tweet_at = None
                   /\ (Settled(i) /\ result # "crashed") =>
                         HandleRegistry[h].first_tweet_at = now
             /\ calls[i].stage = 2 =>
                   /\ start_handles[h].first_tweet_at # None
                   /\ start_handles[h].first_tweet_at < now

\* a completed run has sent bar, which had its first tweet from an earlier
\* run, the second tweet and foo, which was new, the first one
C16_Witness ==
    /\ result = "completed"
    /\ Len(calls) = 2
    /\ calls[1].handle = "bar" /\ calls[1].stage = 2 /\ calls[1].outcome = "success"
    /\ calls[2].handle = "foo" /\ calls[2].stage = 1 /\ calls[2].outcome = "success"
    /\ StageOf(start_handles["foo"]) = 0
    /\ HandleRegistry["foo"].first_tweet_at = now
    /\ HandleRegistry["foo"].second_tweet_at = None
    /\ HandleRegistry["bar"].first_tweet_at < now

(***************************************************************************)
(* C17.  Within a run, send_tweet sleeps after every tweet that Twitter    *)
(* accepts, so that no two calls of update_status follow each other        *)
(* without a sleep in between; after a duplicate it sleeps too, for a      *)
(* shorter time than after any accepted tweet; before it raises on another *)
(* failure it does not sleep.                                              *)
(***************************************************************************)
C17_PauseAfterSend ==
    \A i \in 1..Len(calls) :
        /\ calls[i].outcome = "success" => calls[i].pause.lo > 0
        /\ calls[i].outcome = "duplicate" =>
              /\ calls[i].pause.lo > 0
              /\ \A j \in 1..Len(calls) :
                    calls[j].outcome = "success" => calls[i].pause.hi < calls[j].pause.lo
        /\ calls[i].outcome = "error" => calls[i].pause.hi = 0
        /\ i < Len(calls) => calls[i].pause.lo > 0

\* a run with an accepted tweet and then a duplicate
C17_Witness ==
    /\ Len(calls) = 2
    /\ calls[1].outcome = "success"
    /\ calls[2].outcome = "duplicate"
    /\ pc = "sent_second"

(***************************************************************************)
(* C18.  In every committed state the sheet of every record of the Handle  *)
(* Registry is the id of a record of the File Registry, and that file is   *)
(* processed.                                                              *)
(***************************************************************************)
C18_SheetIsProcessedFile ==
    \A h \in DOMAIN HandleRegistry :
        /\ HandleRegistry[h].sheet \in DOMAIN FileRegistry
        /\ FileRegistry[HandleRegistry[h].sheet].id = HandleRegistry[h].sheet
        /\ FileRegistry[HandleRegistry[h].sheet].processed

\* handles of both files are registered, and the last run aborted on an
\* error of Twitter
C18_Witness ==
    /\ result = "aborted"
    /\ \E g, h \in DOMAIN HandleRegistry :
          /\ HandleRegistry[g].sheet = "F1"
          /\ HandleRegistry[h].sheet = "F2"
          /\ HandleRegistry[h].first_tweet_at # None

(***************************************************************************)
(* Repeated runs over a fixed Handle Registry: the Drive folder lists      *)
(* nothing, the one file of the registry is processed, and Twitter accepts *)
(* every tweet.  The runs are not counted; the clock stops at MaxRuns,     *)
(* which the program cannot tell, as it tests the timestamps only for      *)
(* being set (lines 288, 298).                                             *)
(***************************************************************************)
\* the database after a run that has extracted F1 and was cut before its
\* first tweet: F1 is processed, its handles are new
ExtractedRegistry(hs) ==
    LET file == [id |-> "F1", title |-> "leads1", createdDate |-> "2015-03-01"]
    IN [files |-> [f \in {"F1"} |-> [NewFileRecord(file) EXCEPT !.processed = TRUE]],
        twitter_handles |-> [h \in hs |-> NewHandleRecord(NewFileRecord(file), "F1", 1)]]

ProgressInit ==
    /\ pc = "idle"
    /\ \E hs \in (SUBSET AllHandles) \ {{}} : disk = ExtractedRegistry(hs)
    /\ files = disk.files
    /\ twitter_handles = disk.twitter_handles
    /\ MAX_TWEET_COUNT \in 1..MaxCap
    /\ now = 1
    /\ listing = <<>>
    /\ discovered = FALSE
    /\ file_iter = <<>>
    /\ twitter_urls = <<>>
    /\ handles = <<>>
    /\ handle_iter = <<>>
    /\ tweet_count = 0
    /\ scanned = <<>>
    /\ result = "crashed"
    /\ read_files = {}
    /\ start_handles = disk.twitter_handles
    /\ calls = <<>>
    /\ accepted = [k \in AllHandles \X {1, 2} |-> 0]

\* main() with an empty listing of the Drive folder (lines 312-327, 204)
StartRunNothingListed ==
    /\ pc = "idle"
    /\ now' = IF now < MaxRuns THEN now + 1 ELSE now
    /\ listing' = <<>>
    /\ scanned' = <<>>
    /\ files' = disk.files
    /\ twitter_handles' = disk.twitter_handles
    /\ pc' = "scan"
    /\ result' = "running"
    /\ read_files' = {}
    /\ start_handles' = disk.twitter_handles
    /\ calls' = <<>>
    /\ UNCHANGED <<disk, MAX_TWEET_COUNT, discovered, file_iter, twitter_urls, handles,
                   handle_iter, tweet_count, accepted>>

\* SendTweet when Twitter accepts the tweet
SendTweetAccepted == SendTweet /\ calls'[Len(calls')].outcome = "success"

ProgressNext ==
    \/ StartRunNothingListed
    \/ ScanDone
    \/ ExtractSkip
    \/ ExtractDone
    \/ SendTweetAccepted
    \/ RecordTweet
    \/ SkipHandle
    \/ TweetDone

\* the scheduler starts main() again and again, and a started process
\* executes its next statement
ProgressSpec == ProgressInit /\ [][ProgressNext]_vars /\ WF_vars(ProgressNext)

(***************************************************************************)
(* C19.  With a fixed Handle Registry, a cap of at least 1 and every tweet *)
(* accepted, the repeated runs bring every handle to its second tweet, for *)
(* good; and a run that starts with every handle there calls               *)
(* update_status for none.                                                 *)
(***************************************************************************)
AllAtStage2(hs) == \A h \in DOMAIN hs : StageOf(hs[h]) = 2

C19_ProgressUnderCap ==
    /\ <>[]AllAtStage2(HandleRegistry)
    /\ [](AllAtStage2(start_handles) => calls = <<>>)

\* with a cap of 1 both handles have got both tweets, and a run after that
\* has completed without a call
C19_Witness ==
    /\ MAX_TWEET_COUNT = 1
    /\ DOMAIN HandleRegistry = {"foo", "bar"}
    /\ AllAtStage2(HandleRegistry)
    /\ AllAtStage2(start_handles)
    /\ result = "completed"
    /\ calls = <<>>
    /\ accepted = [k \in AllHandles \X {1, 2} |-> 1]
====
